---- MODULE Spec2Model ----
(***************************************************************************)
(* RecMetric (mindocr/metrics/rec_metrics.py): the accuracy metric of the  *)
(* text recogniser.  A metric object accumulates, over update() calls,     *)
(* the number of exactly matching samples, the number of samples and the   *)
(* sum of the normalized Levenshtein distances; eval() turns the three     *)
(* into {'acc', 'norm_edit_distance'}; clear() starts a new run.           *)
(*                                                                         *)
(* Data representation.  A Python str is a sequence of one-character       *)
(* strings (<<"b", "a">> is 'ba').  The value None is the one-element       *)
(* sequence <<"<None>">>, which is no str.  The float norm_edit_dis is kept *)
(* as an exact fraction with the fixed denominator Scale, so that a        *)
(* distance d / max(len) is the integer (d * Scale) \div max(len).         *)
(***************************************************************************)
EXTENDS Integers, Sequences, FiniteSets, TLC

\* ------------------------------------------------------------- bounds
\* Longest batch (predictions, texts, lengths) an update call is given.
MaxBatch == 2
\* update is not called once total_num has reached this many samples.
MaxTotal == 2
\* Longest prediction / padded text of the generalised __main__ block.
MaxLen == 2

\* ------------------------------------------------------ str primitives
Min(a, b) == IF a <= b THEN a ELSE b

Max(a, b) == IF a >= b THEN a ELSE b

None == <<"<None>">>

IsNone(s) == s = None

\* ASCII letters, for str.lower().
UpperCase == <<"A","B","C","D","E","F","G","H","I","J","K","L","M",
               "N","O","P","Q","R","S","T","U","V","W","X","Y","Z">>

LowerCase == <<"a","b","c","d","e","f","g","h","i","j","k","l","m",
               "n","o","p","q","r","s","t","u","v","w","x","y","z">>

Digits == <<"0","1","2","3","4","5","6","7","8","9">>

LowerChar(c) ==
    IF \E k \in DOMAIN UpperCase : UpperCase[k] = c
    THEN LowerCase[CHOOSE k \in DOMAIN UpperCase : UpperCase[k] = c]
    ELSE c

\* s.lower()
StrLower(s) == [k \in DOMAIN s |-> LowerChar(s[k])]

IsSpace(c) == c = " "

NotSpace(c) == ~IsSpace(c)

\* s.replace(' ', '')
RemoveSpaces(s) == SelectSeq(s, NotSpace)

\* Mutant of Slice: the padded text is not cut at its length.
SliceWhole(s, l) == s

\* s[:l] for l >= 0
Slice(s, l) == SubSeq(s, 1, Min(l, Len(s)))

\* line.rstrip('\n\r')
RECURSIVE RStrip(_)
RStrip(line) ==
    IF Len(line) > 0 /\ line[Len(line)] \in {"\n", "\r"}
    THEN RStrip(SubSeq(line, 1, Len(line) - 1))
    ELSE line

\* ------------------------------------------------------- dictionary
\* The default dictionary: the characters of "0123456789abcdefghijklmnopqrstuvwxyz".
DefaultDict == [k \in 1..36 |-> IF k <= 10 THEN <<Digits[k]>> ELSE <<LowerCase[k - 10]>>]

\* Dictionary files the metric may be constructed with, as their lines.
\*   upper.txt : "A\n", "ab\r\n", "\n"    (an upper-case letter, a two-character
\*               token and an empty line)
\*   both.txt  : "a\n", "A"                (both cases; no newline at end of file)
DictPaths == {"None", "upper.txt", "both.txt"}

FileLines(path) ==
    IF path = "upper.txt"
    THEN << <<"A", "\n">>, <<"a", "b", "\r", "\n">>, <<"\n">> >>
    ELSE << <<"a", "\n">>, <<"A">> >>

LoadDict(character_dict_path) ==
    IF character_dict_path = "None"
    THEN DefaultDict
    ELSE LET lines == FileLines(character_dict_path)
         IN  [k \in DOMAIN lines |-> RStrip(lines[k])]

\* c in self.dict, for one character c of the label
InDict(d, c) == \E k \in DOMAIN d : d[k] = <<c>>

\* ''.join([c for c in label if c in self.dict])
RECURSIVE FilterOOD(_, _)
FilterOOD(d, label) ==
    IF label = <<>> THEN <<>>
    ELSE IF InDict(d, Head(label))
         THEN <<Head(label)>> \o FilterOOD(d, Tail(label))
         ELSE FilterOOD(d, Tail(label))

\* ------------------------------------------------- rapidfuzz Levenshtein
Min3(a, b, c) == Min(a, Min(b, c))

\* One row of the dynamic program: row[j+1] is the distance between the
\* prefix of a ending in character c and b[1..j]; prev is the row before.
RECURSIVE LevRow(_, _, _, _)
LevRow(prev, c, b, row) ==
    IF Len(row) = Len(b) + 1 THEN row
    ELSE LET j == Len(row)
         IN  LevRow(prev, c, b,
                    Append(row, Min3(prev[j + 1] + 1,
                                     row[j] + 1,
                                     prev[j] + (IF c = b[j] THEN 0 ELSE 1))))

RECURSIVE LevRows(_, _, _, _)
LevRows(a, b, i, prev) ==
    IF i > Len(a) THEN prev[Len(b) + 1]
    ELSE LevRows(a, b, i + 1, LevRow(prev, a[i], b, <<prev[1] + 1>>))

\* Levenshtein.distance(a, b): unit-cost insertions, deletions, substitutions
Distance(a, b) == LevRows(a, b, 1, [j \in 1..(Len(b) + 1) |-> j - 1])

RECURSIVE Lcm1To(_)
Lcm1To(n) ==
    IF n <= 1 THEN 1
    ELSE LET m == Lcm1To(n - 1)
             k == CHOOSE q \in 1..n : (m * q) % n = 0
                                      /\ \A r \in 1..(q - 1) : (m * r) % n # 0
         IN  m * k

\* No compared string is longer than this: the longest label of the
\* __main__ block is 'ba xla la!' (line 133), the others have at most MaxLen.
LongestStr == Max(MaxLen, 10)

\* Denominator of the fractions that stand for floats: every max(len) divides it.
Scale == Lcm1To(LongestStr)

\* Levenshtein.normalized_distance(a, b) for two str, times Scale
NormalizedDistance(a, b) ==
    LET maximum == Max(Len(a), Len(b))
    IN  IF maximum = 0 THEN 0 ELSE (Distance(a, b) * Scale) \div maximum

\* ------------------------------------------------------------- state
VARIABLES
    correct_num,     \* self._correct_num
    total_num,       \* self._total_num
    norm_edit_dis,   \* self.norm_edit_dis, times Scale
    ignore_space,    \* self.ignore_space
    filter_ood,      \* self.filter_ood
    lower,           \* self.lower
    print_flag,      \* self.print_flag
    dict,            \* self.dict
    rapidfuzz_none,  \* what the installed rapidfuzz does with a None argument
    pc,              \* where the caller is: "idle", or "loop" inside update
    gt_kind,         \* update: what gt is ("pair", "list", "other")
    gt_size,         \* update: number of texts of gt
    n_pred,          \* update: len(pred_texts)
    n_gt,            \* update: len(gt_texts) after line 89 / 91
    idx,             \* update: samples the loop has gone through
    entry,           \* the accumulator when the latest call was made
    last,            \* the latest call, what it raised and returned
    pred,            \* __main__: pred
    gt,              \* __main__: <<gt, gt_len>>
    gt_texts,        \* __main__: gt_texts of its update call, after line 89
    printed          \* what line 109 has printed: pairs <<pred, label>>

acc_vars == <<correct_num, total_num, norm_edit_dis>>

cfg_vars == <<ignore_space, filter_ood, lower, print_flag, dict, rapidfuzz_none>>

frame_vars == <<gt_kind, gt_size, n_pred, n_gt, idx, entry>>

main_vars == <<pred, gt, gt_texts>>

vars == <<acc_vars, cfg_vars, frame_vars, main_vars, pc, last, printed>>

Acc == [correct |-> correct_num, total |-> total_num, dis |-> norm_edit_dis]

\* clear(): the accumulator it leaves
Cleared == [correct |-> 0, total |-> 0, dis |-> 0]

NoRet == [acc_num |-> 0, acc_den |-> 0, ned_num |-> 0, ned_den |-> 0]

Returned(op, raised, ret) == [op |-> op, raised |-> raised, ret |-> ret]

\* ------------------------------------------------ update: lines 80-91
\* What lines 81-91 make of gt, by its shape.  gt is
\*   "pair"  : a tuple or list (texts, lens) of n_texts texts and n_lens lengths;
\*   "list"  : a tuple or list of n_texts str (no lengths), g0 = gt[0], g1 = gt[1];
\*   "other" : a sequence of n_texts str that is neither a tuple nor a list.
\* A tuple or list is always read as (texts, lens): for a list of str, gt[0]
\* is the "texts" and gt[1] the "lengths", so line 89 slices the characters of
\* gt[0] by the characters of gt[1].  What is raised is named with its line.
\* (A gt whose texts and lengths are Tensors is first turned into the arrays
\* of the same values, lines 85-87.)
UnpackedLen(kind, n_texts, n_lens, g0, g1) ==
    CASE kind = "pair" ->
           IF n_lens > n_texts
           THEN [raised |-> "IndexError:89", n |-> 0]
           ELSE [raised |-> "none", n |-> n_lens]
      [] kind = "list" ->
           IF n_texts = 0 THEN [raised |-> "IndexError:82", n |-> 0]
           ELSE IF n_texts = 1 THEN [raised |-> "IndexError:83", n |-> 0]
           ELSE IF Len(g1) = 0 THEN [raised |-> "none", n |-> 0]
           ELSE IF Len(g0) = 0 THEN [raised |-> "IndexError:89", n |-> 0]
           ELSE [raised |-> "TypeError:89", n |-> 0]
      [] OTHER -> [raised |-> "none", n |-> n_texts]

\* gt_texts[i] after lines 89 / 91
GtText(kind, text, l) == IF kind = "pair" THEN Slice(text, l) ELSE text

\* ---------------------------------------------- update: lines 94-118
\* pred as compared (lines 98-99)
NormPred(p) == IF ignore_space THEN RemoveSpaces(p) ELSE p

\* Mutant of NormLabel: the label is lower-cased before it is filtered.
NormLabelLowerFirst(label) ==
    LET l1 == IF ignore_space THEN RemoveSpaces(label) ELSE label
        l2 == IF lower THEN StrLower(l1) ELSE l1
    IN  IF filter_ood THEN FilterOOD(dict, l2) ELSE l2

\* label as compared (lines 98-106)
NormLabel(label) ==
    LET l1 == IF ignore_space THEN RemoveSpaces(label) ELSE label
        l2 == IF filter_ood THEN FilterOOD(dict, l1) ELSE l1
    IN  IF lower THEN StrLower(l2) ELSE l2

\* Mutant of LoopBody: the edit distance is added as it is, not normalized.
LoopBodyRawDistance(a, p, label) ==
    LET nl == NormLabel(label)
        np == IF IsNone(p) THEN p ELSE NormPred(p)
    IN  [raised |-> "none",
         acc |-> [correct |-> a.correct + (IF np = nl THEN 1 ELSE 0),
                  total   |-> a.total + 1,
                  dis     |-> a.dis + (IF IsNone(p) THEN Scale
                                       ELSE Distance(np, nl) * Scale)],
         out |-> IF print_flag THEN << <<np, nl>> >> ELSE <<>>]

\* One pass through the loop body for (p, label), from accumulator a.
\* None has no replace(): line 99 raises.  Past line 99, rapidfuzz either
\* raises on None or scores it as the worst distance 1.0, by its version.
LoopBody(a, p, label) ==
    LET nl  == NormLabel(label)
        np  == IF IsNone(p) THEN p ELSE NormPred(p)
        out == IF print_flag THEN << <<np, nl>> >> ELSE <<>>
    IN  IF IsNone(p) /\ ignore_space
        THEN [raised |-> "AttributeError:99", acc |-> a, out |-> <<>>]
        ELSE IF IsNone(p) /\ rapidfuzz_none = "raise"
        THEN [raised |-> "TypeError:111", acc |-> a, out |-> out]
        ELSE [raised |-> "none",
              acc |-> [correct |-> a.correct + (IF np = nl THEN 1 ELSE 0),
                       total   |-> a.total + 1,
                       dis     |-> a.dis + (IF IsNone(p) THEN Scale
                                            ELSE NormalizedDistance(np, nl))],
              out |-> out]

\* Mutant of EvalResult: no samples give accuracy 0 instead of an error.
EvalResultNoCheck(a) ==
    Returned("eval", "none",
             [acc_num |-> a.correct, acc_den |-> Max(a.total, 1),
              ned_num |-> a.total * Scale - a.dis, ned_den |-> Max(a.total, 1) * Scale])

\* Mutant of EvalResult: the mean distance is returned, not 1 minus it.
EvalResultNoInvert(a) ==
    IF a.total = 0
    THEN Returned("eval", "RuntimeError:122", NoRet)
    ELSE Returned("eval", "none",
                  [acc_num |-> a.correct, acc_den |-> a.total,
                   ned_num |-> a.dis, ned_den |-> a.total * Scale])

\* ------------------------------------------------------ eval: 120-129
EvalResult(a) ==
    IF a.total = 0
    THEN Returned("eval", "RuntimeError:122", NoRet)
    ELSE Returned("eval", "none",
                  [acc_num |-> a.correct, acc_den |-> a.total,
                   ned_num |-> a.total * Scale - a.dis, ned_den |-> a.total * Scale])

\* ------------------------------------------------------------ inputs
\* Predictions, padded texts and lengths the callers of Spec pass.
SomePreds == { <<"a">>, <<"a", "A">>, <<" ", "a">>, None }

SomeTexts == { <<>>, <<"a">>, <<"A", "a">>, <<"a", " ">> }

SomeLens == 0..2

\* The first two str of a gt that is a plain list of str.
SomeStrs == { <<>>, <<"a">> }

\* ------------------------------------------------------------ actions
\* No update call has been made since the last call returned.
NoFrame ==
    /\ gt_kind = "pair" /\ gt_size = 0 /\ n_pred = 0 /\ n_gt = 0 /\ idx = 0
    /\ entry = Cleared

\* The frame of update is gone once another call is made.
ResetFrame ==
    /\ gt_kind' = "pair" /\ gt_size' = 0 /\ n_pred' = 0 /\ n_gt' = 0 /\ idx' = 0

\* __init__ (lines 25-48): clear(), the flags, the dictionary
Constructed(path) ==
    /\ correct_num = Cleared.correct
    /\ total_num = Cleared.total
    /\ norm_edit_dis = Cleared.dis
    /\ ignore_space \in BOOLEAN
    /\ filter_ood \in BOOLEAN
    /\ lower \in BOOLEAN
    /\ dict = LoadDict(path)
    /\ last = Returned("init", "none", NoRet)
    /\ printed = <<>>
    /\ NoFrame

Init ==
    /\ \E path \in DictPaths : Constructed(path)
    /\ print_flag = FALSE
    /\ rapidfuzz_none \in {"raise", "worst"}
    /\ pc = "idle"
    /\ pred = <<>>
    /\ gt = <<>>
    /\ gt_texts = <<>>

\* Mutant of Clear: norm_edit_dis is not reset.
ClearKeepsDis ==
    /\ pc = "idle"
    /\ correct_num' = 0
    /\ total_num' = 0
    /\ last' = Returned("clear", "none", NoRet)
    /\ entry' = Acc
    /\ ResetFrame
    /\ UNCHANGED <<norm_edit_dis, cfg_vars, main_vars, pc, printed>>

\* clear() (lines 50-53)
Clear ==
    /\ pc = "idle"
    /\ correct_num' = Cleared.correct
    /\ total_num' = Cleared.total
    /\ norm_edit_dis' = Cleared.dis
    /\ last' = Returned("clear", "none", NoRet)
    /\ entry' = Acc
    /\ ResetFrame
    /\ UNCHANGED <<cfg_vars, main_vars, pc, printed>>

\* update(*inputs) with len(inputs) # 2 (lines 72-73)
UpdateArity ==
    /\ pc = "idle"
    /\ \E arity \in {1, 3} :
         last' = Returned("update", "ValueError:73", NoRet)
    /\ entry' = Acc
    /\ ResetFrame
    /\ UNCHANGED <<acc_vars, cfg_vars, main_vars, pc, printed>>

\* The shapes of gt the callers of Spec pass: <<kind, n_texts, n_lens, gt[0], gt[1]>>
\* (gt[0] and gt[1] are read as str only when gt is a list of at least two str).
GtShapes ==
    ({"pair"} \X (0..MaxBatch) \X (0..MaxBatch) \X {<<>>} \X {<<>>})
    \cup ({"list"} \X (0..1) \X {0} \X {<<>>} \X {<<>>})
    \cup ({"list"} \X (2..MaxBatch) \X {0} \X SomeStrs \X SomeStrs)
    \cup ({"other"} \X (0..MaxBatch) \X {0} \X {<<>>} \X {<<>>})

\* update(preds, gt), lines 72-94: the arguments are unpacked and the loop is
\* entered; the call returns here when unpacking raises or zip() is empty.
UpdateCall ==
    /\ pc = "idle"
    /\ \E np \in 0..MaxBatch, g \in GtShapes :
         LET u == UnpackedLen(g[1], g[2], g[3], g[4], g[5])
         IN  /\ total_num + Min(np, u.n) <= MaxTotal
             /\ gt_kind' = g[1]
             /\ gt_size' = g[2]
             /\ n_pred' = np
             /\ n_gt' = u.n
             /\ idx' = 0
             /\ entry' = Acc
             /\ IF u.raised = "none" /\ Min(np, u.n) > 0
                THEN /\ pc' = "loop"
                     /\ last' = Returned("update", "none", NoRet)
                ELSE /\ pc' = "idle"
                     /\ last' = Returned("update", u.raised, NoRet)
    /\ UNCHANGED <<acc_vars, cfg_vars, main_vars, printed>>

\* update, lines 94-118: one sample of zip(pred_texts, gt_texts); the call
\* returns when the body raises or zip() is exhausted.
UpdateIter ==
    /\ pc = "loop"
    /\ \E p \in SomePreds, text \in SomeTexts, l \in SomeLens :
         LET r == LoopBody(Acc, p, GtText(gt_kind, text, l))
             done == idx + 1 = Min(n_pred, n_gt)
         IN  /\ correct_num' = r.acc.correct
             /\ total_num' = r.acc.total
             /\ norm_edit_dis' = r.acc.dis
             /\ printed' = printed \o r.out
             /\ idx' = IF r.raised = "none" THEN idx + 1 ELSE idx
             /\ IF r.raised # "none" \/ done
                THEN /\ pc' = "idle"
                     /\ last' = Returned("update", r.raised, NoRet)
                ELSE /\ pc' = "loop"
                     /\ last' = last
    /\ UNCHANGED <<cfg_vars, main_vars, gt_kind, gt_size, n_pred, n_gt, entry>>

\* Mutant of Eval: eval() starts a new run once it has the result.
EvalThenClear ==
    /\ pc = "idle"
    /\ last' = EvalResult(Acc)
    /\ entry' = Acc
    /\ correct_num' = 0
    /\ total_num' = 0
    /\ norm_edit_dis' = 0
    /\ ResetFrame
    /\ UNCHANGED <<cfg_vars, main_vars, pc, printed>>

\* eval() (lines 120-129)
Eval ==
    /\ pc = "idle"
    /\ last' = EvalResult(Acc)
    /\ entry' = Acc
    /\ ResetFrame
    /\ UNCHANGED <<acc_vars, cfg_vars, main_vars, pc, printed>>

Next == Clear \/ UpdateArity \/ UpdateCall \/ UpdateIter \/ Eval

Spec == Init /\ [][Next]_vars

\* RecMetric() as constructed with the default arguments (lines 26-30, 41-42)
InitDefault ==
    /\ Init
    /\ ignore_space /\ filter_ood /\ lower
    /\ dict = DefaultDict

SpecDefault == InitDefault /\ [][Next]_vars

\* ------------------------------------------- the __main__ block (131-140)
\* The block constructs a metric, calls update once on (pred, (gt, gt_len))
\* and prints eval().  SpecMain runs it on the batch of the source and on
\* every batch of one sample over MainAlphabet, for every configuration.
MainAlphabet == {"a", "A", " "}

Strs(n) == UNION { [1..k -> MainAlphabet] : k \in 0..n }

\* pred, gt and gt_len of lines 132-135
MainPred == << <<"b","a","l","a","l","a">>, <<"b","a">> >>

MainGt == << <<"b","a"," ","x","l","a"," ","l","a","!"," "," "," "," ">>,
             <<"b","a"," "," "," "," "," "," "," ">> >>

MainGtLen == <<10, 2>>

MainInputs ==
    { <<MainPred, <<MainGt, MainGtLen>> >> }
    \cup { << <<p>>, << <<t>>, <<l>> >> >> :
             p \in Strs(MaxLen), t \in Strs(MaxLen), l \in 0..(MaxLen + 1) }

InitMain ==
    /\ \E path \in DictPaths : Constructed(path)
    /\ print_flag = TRUE
    /\ rapidfuzz_none = "worst"
    /\ pc = "line138"
    /\ \E in \in MainInputs : pred = in[1] /\ gt = in[2]
    /\ gt_texts = <<>>

\* update, lines 94-118: the loop over zip(preds, labels) from sample i on.
RECURSIVE RunLoop(_, _, _, _, _)
RunLoop(a, preds, labels, i, out) ==
    IF i > Min(Len(preds), Len(labels))
    THEN [raised |-> "none", acc |-> a, out |-> out, scored |-> i - 1]
    ELSE LET r == LoopBody(a, preds[i], labels[i])
         IN  IF r.raised # "none"
             THEN [raised |-> r.raised, acc |-> r.acc, out |-> out \o r.out,
                   scored |-> i - 1]
             ELSE RunLoop(r.acc, preds, labels, i + 1, out \o r.out)

\* line 138: m.update({'texts': pred}, (gt, gt_len))
MainUpdate ==
    /\ pc = "line138"
    /\ LET u == UnpackedLen("pair", Len(gt[1]), Len(gt[2]), <<>>, <<>>)
           labels == [i \in 1..u.n |-> GtText("pair", gt[1][i], gt[2][i])]
           r == IF u.raised = "none"
                THEN RunLoop(Acc, pred, labels, 1, <<>>)
                ELSE [raised |-> u.raised, acc |-> Acc, out |-> <<>>, scored |-> 0]
       IN  /\ gt_texts' = labels
           /\ correct_num' = r.acc.correct
           /\ total_num' = r.acc.total
           /\ norm_edit_dis' = r.acc.dis
           /\ printed' = printed \o r.out
           /\ gt_kind' = "pair"
           /\ gt_size' = Len(gt[1])
           /\ n_pred' = Len(pred)
           /\ n_gt' = u.n
           /\ idx' = r.scored
           /\ entry' = Acc
           /\ last' = Returned("update", r.raised, NoRet)
    /\ pc' = "line139"
    /\ UNCHANGED <<cfg_vars, pred, gt>>

\* line 139: acc = m.eval()
MainEval ==
    /\ pc = "line139"
    /\ last' = EvalResult(Acc)
    /\ entry' = Acc
    /\ pc' = "line140"
    /\ UNCHANGED <<acc_vars, cfg_vars, main_vars, printed,
                   gt_kind, gt_size, n_pred, n_gt, idx>>

NextMain == MainUpdate \/ MainEval

SpecMain == InitMain /\ [][NextMain]_vars

\* =============================================================== claims
\* An update call with two arguments has returned.
UpdateReturned == pc = "idle" /\ last.op = "update" /\ last.raised # "ValueError:73"

\* The update call of the __main__ block has returned without raising.
MainUpdated == pc \in {"line139", "line140"} /\ last.raised = "none"

DefaultConfig == ignore_space /\ filter_ood /\ lower /\ dict = DefaultDict

\* C1: an update call is atomic: when it returns, either it did not raise and
\* every sample of the batch has been scored, or it raised and correct_num,
\* total_num and norm_edit_dis are what they were when the call was made.
C1_UpdateAtomic ==
    UpdateReturned =>
        \/ last.raised = "none" /\ (n_pred = n_gt => idx = n_pred)
        \/ last.raised # "none" /\ Acc = entry

\* C2: an update call whose number of predictions differs from the number of
\* unpacked ground-truth strings raises and leaves correct_num, total_num and
\* norm_edit_dis as they were.
C2_MismatchRejected ==
    (UpdateReturned /\ n_pred # n_gt) => (last.raised # "none" /\ Acc = entry)

\* C3: an update call given N str predictions and, as gt, a plain sequence of
\* N str (no lengths) does not raise and adds exactly N to total_num.
C3_PlainGroundTruth ==
    (/\ UpdateReturned
     /\ gt_kind \in {"list", "other"}
     /\ n_pred = gt_size
     /\ last.raised \notin {"AttributeError:99", "TypeError:111"})
    => (last.raised = "none" /\ total_num = entry.total + gt_size)

\* C4: with gt = (texts, lengths), the label of sample i that is normalized
\* and compared is the prefix of texts[i] of length min(lengths[i],
\* len(texts[i])): what follows it in texts[i] reaches neither the label nor
\* the printed (compared) pair.
C4_LabelIsPrefix ==
    MainUpdated =>
        /\ Len(gt_texts) = Len(gt[2])
        /\ Len(printed) = Len(gt_texts)
        /\ \A i \in DOMAIN gt_texts :
             LET text == gt[1][i]
                 k == IF gt[2][i] >= Len(text) THEN Len(text) ELSE gt[2][i]
             IN  /\ Len(gt_texts[i]) = k
                 /\ \A j \in 1..k : gt_texts[i][j] = text[j]
                 /\ printed[i][2] = NormLabel(SubSeq(text, 1, k))

C4_Witness ==
    /\ MainUpdated
    /\ pred = MainPred
    /\ gt_texts[1] = SubSeq(MainGt[1], 1, 10)
    /\ gt_texts[2] = <<"b", "a">>

\* The characters of a label that are compared, by the flags: a space only
\* when spaces are kept, a character outside the dictionary only when
\* out-of-dictionary characters are kept; the test is on the character as
\* it stands in the label.
LabelCharKept(c) ==
    /\ ignore_space => c # " "
    /\ filter_ood => \E k \in DOMAIN dict : dict[k] = <<c>>

PredCharKept(c) == ignore_space => c # " "

\* C5: the compared strings are the prediction with its spaces removed iff
\* ignore_space (never filtered, never lower-cased) and the label with the
\* characters that are spaces (iff ignore_space) or not in the dictionary
\* (iff filter_ood, tested on the original character) removed and, after
\* that, lower-cased iff lower; with the default dictionary an upper-case
\* character of the label is dropped.
C5_NormalizationOrder ==
    MainUpdated =>
        \A i \in DOMAIN printed :
            LET kept == SelectSeq(gt_texts[i], LabelCharKept)
            IN  /\ printed[i][1] = SelectSeq(pred[i], PredCharKept)
                /\ printed[i][2] =
                     [k \in DOMAIN kept |-> IF lower THEN LowerChar(kept[k]) ELSE kept[k]]
                /\ (filter_ood /\ dict = DefaultDict) =>
                     Len(printed[i][2]) <=
                        Len(SelectSeq(gt_texts[i], LAMBDA c : c \notin {"A", " "}))

C5_Witness ==
    /\ MainUpdated
    /\ DefaultConfig
    /\ pred = << <<"a", "A">> >>
    /\ gt_texts = << <<"A", "a">> >>
    /\ printed = << << <<"a", "A">>, <<"a">> >> >>

\* C6: eval() raises exactly when total_num is 0, and then returns nothing;
\* otherwise it returns a result.
C6_EvalEmpty ==
    (pc = "idle" /\ last.op = "eval") =>
        /\ total_num = 0 => (last.raised = "RuntimeError:122" /\ last.ret = NoRet)
        /\ total_num > 0 => (last.raised = "none" /\ last.ret.acc_den > 0
                                                  /\ last.ret.ned_den > 0)

C6_Witness ==
    /\ pc = "idle" /\ last.op = "eval" /\ last.raised = "RuntimeError:122"
    /\ total_num = 0

\* C7: eval() leaves correct_num, total_num and norm_edit_dis as they were,
\* whether it raises or returns, and a second eval() returns what the first did.
C7_EvalReadOnly ==
    /\ [](pc = "idle" /\ last.op = "eval" => Acc = entry)
    /\ [][(pc = "idle" /\ last.op = "eval" /\ pc' = "idle" /\ last'.op = "eval")
            => last' = last]_vars

C7_Witness ==
    /\ pc = "idle" /\ last.op = "eval" /\ last.raised = "none"
    /\ total_num = 2 /\ correct_num = 1

\* C8: 0 <= correct_num <= total_num and 0 <= norm_edit_dis <= total_num
\* always; a step that is not a clear() decreases none of the three; a
\* returned eval() gives acc and norm_edit_distance in [0, 1].
C8_Bounds ==
    /\ [](/\ 0 <= correct_num /\ correct_num <= total_num
          /\ 0 <= norm_edit_dis /\ norm_edit_dis <= total_num * Scale
          /\ (last.op = "eval" /\ last.raised = "none") =>
                /\ 0 <= last.ret.acc_num /\ last.ret.acc_num <= last.ret.acc_den
                /\ 0 <= last.ret.ned_num /\ last.ret.ned_num <= last.ret.ned_den)
    /\ [][last'.op # "clear" =>
            /\ correct_num' >= correct_num
            /\ total_num' >= total_num
            /\ norm_edit_dis' >= norm_edit_dis]_vars

C8_Witness ==
    /\ pc = "idle" /\ last.op = "eval" /\ last.raised = "none"
    /\ total_num = 2 /\ correct_num = 1
    /\ 0 < norm_edit_dis /\ norm_edit_dis < Scale
    /\ 0 < last.ret.ned_num /\ last.ret.ned_num < last.ret.ned_den

RECURSIVE SumDistances(_)
SumDistances(pairs) ==
    IF pairs = <<>> THEN 0
    ELSE LET a == Head(pairs)[1]
             b == Head(pairs)[2]
             longest == IF Len(a) >= Len(b) THEN Len(a) ELSE Len(b)
         IN  (IF longest = 0 THEN 0 ELSE (Distance(a, b) * Scale) \div longest)
             + SumDistances(Tail(pairs))

\* C9: eval() returns acc = (samples whose compared prediction equals its
\* compared label) / (samples) and norm_edit_distance = 1 - (sum of
\* Levenshtein / max(len), 0 for two empty strings) / (samples); for the
\* batch of the __main__ block under the default configuration these are
\* 1/2 and 13/14.
C9_EvalFormulas ==
    (pc = "line140" /\ last.raised = "none") =>
        LET n == Len(printed)
            matches == Cardinality({i \in 1..n : printed[i][1] = printed[i][2]})
        IN  /\ n = Len(pred)
            /\ last.ret.acc_den > 0 /\ last.ret.ned_den > 0
            /\ last.ret.acc_num * n = matches * last.ret.acc_den
            /\ last.ret.ned_num * (n * Scale)
                 = (n * Scale - SumDistances(printed)) * last.ret.ned_den
            /\ (DefaultConfig /\ pred = MainPred /\ gt = <<MainGt, MainGtLen>>) =>
                 /\ last.ret.acc_num * 2 = last.ret.acc_den
                 /\ last.ret.ned_num * 14 = 13 * last.ret.ned_den

C9_Witness ==
    /\ pc = "line140" /\ last.raised = "none"
    /\ DefaultConfig /\ pred = MainPred /\ gt = <<MainGt, MainGtLen>>
    /\ correct_num = 1 /\ total_num = 2
    /\ norm_edit_dis * 7 = Scale

\* C10: clear() leaves correct_num = 0, total_num = 0 and norm_edit_dis = 0,
\* the state of a freshly constructed metric, from any state, and no call
\* changes the flags or the dictionary.
C10_Clear ==
    /\ []((pc = "idle" /\ last.op \in {"init", "clear"}) =>
            (correct_num = 0 /\ total_num = 0 /\ norm_edit_dis = 0))
    /\ [][UNCHANGED <<ignore_space, filter_ood, lower, dict>>]_vars

C10_Witness ==
    /\ pc = "idle" /\ last.op = "clear"
    /\ entry.total = 2 /\ entry.dis > 0
    /\ total_num = 0 /\ norm_edit_dis = 0 /\ correct_num = 0
====
